---- MODULE Spec2Model ----
(***************************************************************************)
(* Model of model_ad_diff.py: the space-time pointwise misfit              *)
(* (SpaceTimePointwiseStateObservation) and the time-dependent             *)
(* advection-diffusion model (TimeDependentAD), driven by an optimisation  *)
(* driver that owns the point x = [u, m, p] and the output containers.     *)
(*                                                                         *)
(* Discretisation used by the model: the state/adjoint space has two       *)
(* degrees of freedom, the parameter space one.  Scalars live in the prime *)
(* field Z_P, in which every linear solve is exact and a singular operator *)
(* makes the solver raise.  Assembled forms are small fixed matrices that  *)
(* keep the relations the forms have in the source (transposes, symmetry). *)
(***************************************************************************)
EXTENDS Integers, Sequences, FiniteSets, TLC

\* ------------------------------------------------------------------ bounds
MaxTime == 3          \* time stamps are drawn from 0..MaxTime
MaxParam == 1         \* parameter values the driver uses: 0..MaxParam

\* ------------------------------------------------------- scalars and tags
P == 5
\* hippylib role tags STATE, PARAMETER, ADJOINT (STATE is a reserved word)
iSTATE == 0
iPARAMETER == 1
iADJOINT == 2

Scalar == 0..(P - 1)
Neg(a) == (P - (a % P)) % P
\* 1/a for a # 0 (the caller checks a # 0, as Python raises on a = 0)
Inv(a) == CHOOSE b \in Scalar : (a * b) % P = 1

\* ------------------------------------------------ dl.Vector / dl.Matrix
ZeroVec == <<0, 0>>
VAdd(a, b) == <<(a[1] + b[1]) % P, (a[2] + b[2]) % P>>
VScale(c, a) == <<(c * a[1]) % P, (c * a[2]) % P>>
\* y.axpy(c, x): y + c*x
Axpy(y, c, a) == VAdd(y, VScale(c, a))
VInner(a, b) == (a[1] * b[1] + a[2] * b[2]) % P

MatVec(A, v) == <<(A[1][1] * v[1] + A[1][2] * v[2]) % P,
                  (A[2][1] * v[1] + A[2][2] * v[2]) % P>>
Transpose(A) == <<<<A[1][1], A[2][1]>>, <<A[1][2], A[2][2]>>>>
MatAdd(A, B) == <<VAdd(A[1], B[1]), VAdd(A[2], B[2])>>
MatScale(c, A) == <<VScale(c, A[1]), VScale(c, A[2])>>
Det(A) == (A[1][1] * A[2][2] + Neg(A[1][2] * A[2][1])) % P
\* PETScLUSolver.solve(u, rhs): defined only for a non-singular operator
LUSolve(A, rhs) ==
    LET di == Inv(Det(A))
        adj == <<<<A[2][2], Neg(A[1][2])>>, <<Neg(A[2][1]), A[1][1]>>>>
    IN  MatVec(MatScale(di, adj), rhs)
Singular(A) == Det(A) = 0

\* ------------------------------------------ assembled forms (constructor)
\* mass matrix  inner(u, v)*dx
M == <<<<2, 1>>, <<1, 2>>>>
\* inner(grad u, grad p)*dx   (symmetric)
Kmat == <<<<1, 4>>, <<4, 1>>>>
\* inner(wind_velocity, grad u)*p*dx   (not symmetric)
Wmat == <<<<0, 1>>, <<4, 0>>>>
\* (-div(kappa grad u) + inner(wind, grad u)) tested with v: C[i][j]
Cmat == <<<<1, 1>>, <<4, 1>>>>
\* the same operator on both trial and test function (symmetric)
Dmat == <<<<2, 0>>, <<0, 1>>>>
\* tau: min(h*h/(2 kappa), h/|v|) with GLS stabilisation, else Constant(0.)
Tau(gls) == IF gls THEN 1 ELSE 0

\* exp(m) of the parameter function (one dof); d/dm exp(m) = exp(m)
ExpM(m) == (2 ^ (m % 4)) % P

\* self.stab = assemble(tau*inner(r_trial, r_test)*dx)
StabMat(gls, h) ==
    MatScale(Tau(gls),
             MatAdd(M, MatAdd(MatScale(h, MatAdd(Cmat, Transpose(Cmat))),
                              MatScale(h * h, Dmat))))
\* self.M_stab = assemble(inner(u, v + tau*r_test)*dx)
MStabMat(gls, h) ==
    MatAdd(M, MatScale(Tau(gls), MatAdd(M, MatScale(h, Transpose(Cmat)))))
\* self.Mt_stab = assemble(inner(u + tau*r_trial, v)*dx)
MtStabMat(gls, h) ==
    MatAdd(M, MatScale(Tau(gls), MatAdd(M, MatScale(h, Cmat))))

\* pde_varf(u, m, p) = exp(m)*inner(grad u, grad p)*dx + inner(wind, grad u)*p*dx
pde_varf(u, m, p) ==
    (ExpM(m) * VInner(p, MatVec(Kmat, u)) + VInner(p, MatVec(Wmat, u))) % P
\* assemble(pde_varf(utrial, m, utest))
Nmat(m) == MatAdd(MatScale(ExpM(m), Kmat), Wmat)
\* assemble(pde_varf(utest, m, utrial))
Ntmat(m) == Transpose(Nmat(m))

\* LU operator of define_Fwd_solver: self.L = self.M + self.dt*self.N + self.stab
LMat(m, gls, h) == MatAdd(M, MatAdd(MatScale(h, Nmat(m)), StabMat(gls, h)))
\* operator of define_Adj_solver: self.Lt = self.M + self.dt*self.Nt + self.stab
LtMat(m, gls, h) == MatAdd(M, MatAdd(MatScale(h, Ntmat(m)), StabMat(gls, h)))

\* Python None, for attributes that hold a number once set
None == 0 - 1

\* --------------------------------------------- TimeDependentVector (hippylib)
\* a container over a time grid: data[k] is the vector at times[k]
Zeros(times) == [k \in 1..Len(times) |-> ZeroVec]
OnGrid(times, t) == \E k \in 1..Len(times) : times[k] = t
IndexOf(times, t) == CHOOSE k \in 1..Len(times) : times[k] = t
Store(c, times, v, t) == [c EXCEPT ![IndexOf(times, t)] = v]
Retrieve(c, times, t) == c[IndexOf(times, t)]
\* inner product of two time-indexed vectors: sum over all times
RECURSIVE TInnerUpTo(_, _, _)
TInnerUpTo(a, b, n) ==
    IF n = 0 THEN 0 ELSE (TInnerUpTo(a, b, n - 1) + VInner(a[n], b[n])) % P
TInner(a, b) == TInnerUpTo(a, b, Len(a))

\* ------------------------------------------------------------ input sets
\* strictly increasing grids of three time stamps starting at 0 (solveFwd
\* stores the initial condition at the literal time 0)
Grids ==
    {g \in [1..3 -> 0..MaxTime] : g[1] = 0 /\ g[1] < g[2] /\ g[2] < g[3]}
Uniform(g) == \A k \in 1..(Len(g) - 1) : g[k + 1] - g[k] = g[2] - g[1]
ParamVals == 0..MaxParam
\* observation operator B (one target): B*u = Bvec . u, B^T*y = y*Bvec
Bvec == <<1, 2>>
\* initial condition
ICVec == <<1, 2>>
ObsChoices == {s \in SUBSET (0..MaxTime) : Cardinality(s) <= 1}
VarianceChoices == {None, 0, 2}

\* ------------------------------------------------------------------ state
VARIABLES
    pc,                  \* "start", "misfit" (misfit built), "ready" (model built)
    observation_times,   \* misfit.observation_times (a set of time stamps)
    noise_variance,      \* misfit.noise_variance
    d,                   \* misfit.d : observation time -> datum
    simulation_times,    \* model.simulation_times
    dt,                  \* model.dt
    gls_stab,            \* constructor flag that selects tau
    solver,              \* parameter self.solver's operator was built from, or None
    solvert,             \* parameter self.solvert's operator was built from, or None
    x_set,               \* FALSE: self.x = [None, None, None]; TRUE: self.x is the driver's x
    gauss_newton_approx, \* self.gauss_newton_approx
    heap,                \* the driver's point x: u = x[STATE], m = x[PARAMETER],
                         \* p = x[ADJOINT]
    last                 \* history: the last call, its arguments and its outcome

vars == <<pc, observation_times, noise_variance, d, simulation_times, dt,
          gls_stab, solver, solvert, x_set, gauss_newton_approx, heap, last>>

misfitVars == <<observation_times, noise_variance, d>>
modelVars == <<simulation_times, dt, gls_stab>>

\* outT / outM: contents of the call's output container when the call ended
\* (time-indexed or parameter-type)
NoCall ==
    [op |-> "none", status |-> "none", i |-> None, j |-> None, outc |-> "none",
     dirM |-> 0, dirT |-> <<>>, outT |-> <<>>, outM |-> 0, ret |-> <<>>,
     arg |-> [kind |-> "none", s |-> "", n |-> 0]]

NoHeap == [u |-> <<>>, m |-> 0, p |-> <<>>]

\* A call's output container is x[STATE] ("u"), x[ADJOINT] ("p") or a
\* separate container of the driver ("o") with arbitrary previous contents.
JunkVec == <<3, 4>>
PrevT(times) == {[k \in 1..Len(times) |-> JunkVec]}
PrevM == {3}
\* the containers a call sees: x plus the separate output containers
\* (o time-indexed, om parameter-type)
Work(h, po, pm) == [u |-> h.u, m |-> h.m, p |-> h.p, o |-> po, om |-> pm]
\* out.zero()
Zeroed(w, outc, times) ==
    [w EXCEPT ![outc] = IF outc \in {"m", "om"} THEN 0 ELSE Zeros(times)]
\* directions handed to the linearised operators
UnitDirsT(times) ==
    {[k \in 1..Len(times) |-> IF k = j THEN v ELSE ZeroVec] :
        j \in 1..Len(times), v \in {<<1, 0>>, <<0, 1>>}}
DirsT(times) ==
    {[k \in 1..Len(times) |-> <<1, k>>],
     [k \in 1..Len(times) |-> IF k = 1 THEN <<2, 1>> ELSE ZeroVec]}
DirsM == {1, 2}
\* the output container that fits a row index, and the directions and previous
\* output contents that fit a block pair
OutFor(i) == IF i = iPARAMETER THEN "om" ELSE "o"
DirsFor(j, times) == IF j = iPARAMETER THEN DirsM ELSE DirsT(times)
PrevFor(i, times) == IF i = iPARAMETER THEN PrevM ELSE PrevT(times)
WorkFor(h, i, prev, times) ==
    IF i = iPARAMETER THEN Work(h, Zeros(times), prev) ELSE Work(h, prev, 0)
XOf(w) == [u |-> w.u, m |-> w.m, p |-> w.p]

Init ==
    /\ pc = "start"
    /\ observation_times = {}
    /\ noise_variance = None
    /\ d = <<>>
    /\ simulation_times = <<>>
    /\ dt = 0
    /\ gls_stab = FALSE
    /\ solver = None
    /\ solvert = None
    /\ x_set = FALSE
    /\ gauss_newton_approx = TRUE
    /\ heap = NoHeap
    /\ last = NoCall

\* SpaceTimePointwiseStateObservation.__init__: data default to zero
Misfit_init(obs, dArg, nv) ==
    /\ pc = "start"
    /\ pc' = "misfit"
    /\ observation_times' = obs
    /\ d' = [t \in obs |-> IF dArg = None THEN 0 ELSE dArg]
    /\ noise_variance' = nv
    /\ UNCHANGED <<simulation_times, dt, gls_stab, solver, solvert, x_set,
                   gauss_newton_approx, heap, last>>

\* TimeDependentAD.__init__, followed by the driver's allocation of its
\* point x over the model's grid (all zero)
TimeDependentAD_init(grid, gls) ==
    /\ pc = "misfit"
    /\ \A t \in observation_times : OnGrid(grid, t)
    /\ pc' = "ready"
    /\ simulation_times' = grid
    /\ dt' = grid[2] - grid[1]
    /\ gls_stab' = gls
    /\ gauss_newton_approx' = TRUE
    /\ x_set' = FALSE
    /\ heap' = [u |-> Zeros(grid), m |-> 0, p |-> Zeros(grid)]
    /\ last' = [NoCall EXCEPT !.op = "init", !.status = "ok"]
    /\ UNCHANGED <<observation_times, noise_variance, d, solver, solvert>>

\* the driver updates the parameter vector of x in place
DriverSetParameter(v) ==
    /\ pc = "ready"
    /\ heap.m # v
    /\ heap' = [heap EXCEPT !.m = v]
    /\ last' = [NoCall EXCEPT !.op = "setParameter", !.status = "ok"]
    /\ UNCHANGED <<pc, misfitVars, modelVars, solver, solvert, x_set,
                   gauss_newton_approx>>

\* ------------------------------------------------------------- solveFwd
\* the time loop of solveFwd from index k on; uold is the previous iterate
RECURSIVE FwdMarch(_, _, _, _, _, _)
FwdMarch(w, outc, A, Ms, uold, k) ==
    IF k > Len(w[outc]) THEN w
    ELSE LET u == LUSolve(A, MatVec(Ms, uold))
         IN  FwdMarch([w EXCEPT ![outc][k] = u], outc, A, Ms, u, k + 1)

\* solveFwd(out, x): the containers after the call, whether it raised, and
\* whether define_Fwd_solver ran
solveFwd(w, outc, times, gls, step) ==
    LET w1 == Zeroed(w, outc, times)
        w2 == [w1 EXCEPT !.u = Store(w1.u, times, ICVec, 0)]
        A == LMat(w.m, gls, step)
    IN  IF ~OnGrid(times, 0)
        THEN [status |-> "error", w |-> w1, built |-> FALSE]
        ELSE IF Singular(A)
        THEN [status |-> "error", w |-> w2, built |-> TRUE]
        ELSE [status |-> "ok", built |-> TRUE,
              w |-> FwdMarch(w2, outc, A, MStabMat(gls, step), w2.u[1], 2)]

SolveFwd(outc, prev) ==
    /\ pc = "ready"
    /\ LET r == solveFwd(Work(heap, prev, 0), outc, simulation_times, gls_stab, dt)
       IN  /\ heap' = XOf(r.w)
           /\ solver' = IF r.built THEN heap.m ELSE solver
           /\ last' = [NoCall EXCEPT !.op = "solveFwd", !.status = r.status,
                                     !.outc = outc,
                                     !.outT = r.w[outc]]
    /\ UNCHANGED <<pc, misfitVars, modelVars, solvert, x_set,
                   gauss_newton_approx>>

\* ---------------------------------- SpaceTimePointwiseStateObservation
\* B.mult(u, Bu) and B.transpmult(y, u)
Bmult(u) == VInner(Bvec, u)
Btranspmult(y) == VScale(y, Bvec)
\* 1./noise_variance and c/(2.*noise_variance) raise for None and for 0
DivRaises(nv) == nv = None \/ nv = 0

RECURSIVE SumOver(_, _)
SumOver(S, f) ==
    IF S = {} THEN 0
    ELSE LET t == CHOOSE e \in S : TRUE
         IN  (f[t] + SumOver(S \ {t}, f)) % P

\* the residual B*u(t) - d(t) at an observation time
Residual(u, times, dd, t) == (Bmult(Retrieve(u, times, t)) + Neg(dd[t])) % P

\* cost(x) with a guard that skips the division when it would raise
Misfit_cost_unchecked(w, obs, nv, dd, times) ==
    LET c == SumOver(obs, [t \in obs |->
                 (Residual(w.u, times, dd, t) * Residual(w.u, times, dd, t)) % P])
    IN  IF DivRaises(nv) THEN [status |-> "ok", ret |-> <<c>>]
        ELSE [status |-> "ok", ret |-> <<(c * Inv((2 * nv) % P)) % P>>]

\* cost(x)
Misfit_cost(w, obs, nv, dd, times) ==
    LET c == SumOver(obs, [t \in obs |->
                 (Residual(w.u, times, dd, t) * Residual(w.u, times, dd, t)) % P])
    IN  IF DivRaises(nv) THEN [status |-> "error", ret |-> <<>>]
        ELSE [status |-> "ok", ret |-> <<(c * Inv((2 * nv) % P)) % P>>]

\* grad(i, x, out) without the leading out.zero()
Misfit_grad_no_zero(w, i, outc, obs, nv, dd, times) ==
    IF i = iSTATE
    THEN IF obs = {} THEN [status |-> "ok", w |-> w]
         ELSE IF DivRaises(nv) THEN [status |-> "error", w |-> w]
         ELSE [status |-> "ok",
               w |-> [w EXCEPT ![outc] =
                        [k \in 1..Len(times) |->
                           IF times[k] \in obs
                           THEN Btranspmult((Residual(w.u, times, dd, times[k])
                                             * Inv(nv)) % P)
                           ELSE w[outc][k]]]]
    ELSE [status |-> "ok", w |-> w]

\* grad(i, x, out)
Misfit_grad(w, i, outc, obs, nv, dd, times) ==
    LET w1 == Zeroed(w, outc, times)
    IN  IF i = iSTATE
        THEN IF obs = {} THEN [status |-> "ok", w |-> w1]
             ELSE IF DivRaises(nv) THEN [status |-> "error", w |-> w1]
             ELSE [status |-> "ok",
                   w |-> [w1 EXCEPT ![outc] =
                            [k \in 1..Len(times) |->
                               IF times[k] \in obs
                               THEN Btranspmult((Residual(w1.u, times, dd, times[k])
                                                 * Inv(nv)) % P)
                               ELSE w1[outc][k]]]]
        ELSE [status |-> "ok", w |-> w1]

\* apply_ij(i, j, direction, out) of the misfit
Misfit_apply_ij(w, i, j, direction, outc, obs, nv, times) ==
    LET w1 == Zeroed(w, outc, times)
    IN  IF i = iSTATE /\ j = iSTATE
        THEN IF obs = {} THEN [status |-> "ok", w |-> w1]
             ELSE IF DivRaises(nv) THEN [status |-> "error", w |-> w1]
             ELSE [status |-> "ok",
                   w |-> [w1 EXCEPT ![outc] =
                            [k \in 1..Len(times) |->
                               IF times[k] \in obs
                               THEN Btranspmult((Bmult(Retrieve(direction, times, times[k]))
                                                 * Inv(nv)) % P)
                               ELSE w1[outc][k]]]]
        ELSE [status |-> "ok", w |-> w1]


MisfitCost ==
    /\ pc = "ready"
    /\ LET r == Misfit_cost(Work(heap, <<>>, 0), observation_times,
                            noise_variance, d, simulation_times)
       IN  last' = [NoCall EXCEPT !.op = "misfit.cost", !.status = r.status,
                                  !.ret = r.ret]
    /\ UNCHANGED <<pc, misfitVars, modelVars, solver, solvert, x_set,
                   gauss_newton_approx, heap>>

MisfitGrad(i, prev) ==
    /\ pc = "ready"
    /\ LET r == Misfit_grad(WorkFor(heap, i, prev, simulation_times), i, OutFor(i),
                            observation_times,
                            noise_variance, d, simulation_times)
       IN  /\ heap' = XOf(r.w)
           /\ last' = [NoCall EXCEPT !.op = "misfit.grad", !.status = r.status,
                                     !.i = i, !.outc = OutFor(i),
                                     !.outT = r.w.o, !.outM = r.w.om]
    /\ UNCHANGED <<pc, misfitVars, modelVars, solver, solvert, x_set,
                   gauss_newton_approx>>

MisfitApplyIJ(i, j, direction, prev) ==
    /\ pc = "ready"
    /\ LET r == Misfit_apply_ij(WorkFor(heap, i, prev, simulation_times), i, j,
                                direction, OutFor(i),
                                observation_times, noise_variance, simulation_times)
       IN  /\ heap' = XOf(r.w)
           /\ last' = [NoCall EXCEPT !.op = "misfit.apply_ij", !.status = r.status,
                                     !.i = i, !.j = j, !.outc = OutFor(i),
                                     !.dirT = direction,
                                     !.outT = r.w.o, !.outM = r.w.om]
    /\ UNCHANGED <<pc, misfitVars, modelVars, solver, solvert, x_set,
                   gauss_newton_approx>>

\* ------------------------------------------------------------- solveAdj
\* the backward loop without pold = p: every step starts from the initial pold
RECURSIVE AdjMarch_uncoupled(_, _, _, _, _, _, _)
AdjMarch_uncoupled(w, outc, A, Mts, g, pold, k) ==
    IF k < 1 THEN w
    ELSE LET rhs == Axpy(MatVec(Mts, pold), P - 1, g[k])
             pp == LUSolve(A, rhs)
         IN  AdjMarch_uncoupled([w EXCEPT ![outc][k] = pp], outc, A, Mts, g, pold,
                                k - 1)

\* the backward time loop of solveAdj from index k down; pold is the
\* previous iterate, g the misfit's state gradient
RECURSIVE AdjMarch(_, _, _, _, _, _, _)
AdjMarch(w, outc, A, Mts, g, pold, k) ==
    IF k < 1 THEN w
    ELSE LET rhs == Axpy(MatVec(Mts, pold), P - 1, g[k])
             pp == LUSolve(A, rhs)
         IN  AdjMarch([w EXCEPT ![outc][k] = pp], outc, A, Mts, g, pp, k - 1)

\* solveAdj(out, x)
solveAdj(w, outc, obs, nv, dd, times, gls, step) ==
    LET gr == Misfit_grad([w EXCEPT !.o = Zeros(times)], iSTATE, "o", obs, nv,
                          dd, times)
        A == LtMat(w.m, gls, step)
        w1 == Zeroed(w, outc, times)
    IN  IF gr.status = "error"
        THEN [status |-> "error", w |-> w, built |-> FALSE]
        ELSE IF Singular(A)
        THEN [status |-> "error", w |-> w1, built |-> TRUE]
        ELSE [status |-> "ok", built |-> TRUE,
              w |-> AdjMarch(w1, outc, A, MtStabMat(gls, step), gr.w.o, ZeroVec,
                             Len(times))]

SolveAdj(outc, prev) ==
    /\ pc = "ready"
    /\ LET r == solveAdj(Work(heap, prev, 0), outc, observation_times,
                         noise_variance, d, simulation_times, gls_stab, dt)
       IN  /\ heap' = XOf(r.w)
           /\ solvert' = IF r.built THEN heap.m ELSE solvert
           /\ last' = [NoCall EXCEPT !.op = "solveAdj", !.status = r.status,
                                     !.outc = outc,
                                     !.outT = r.w[outc]]
    /\ UNCHANGED <<pc, misfitVars, modelVars, solver, x_set,
                   gauss_newton_approx>>

Blocks == {iSTATE, iPARAMETER, iADJOINT}

\* ------------------------------------------ setPointForHessianEvaluations
\* self.x = x stores a reference to the driver's list, not a copy
SetPointForHessianEvaluations(gn) ==
    /\ pc = "ready"
    /\ x_set' = TRUE
    /\ gauss_newton_approx' = gn
    /\ last' = [NoCall EXCEPT !.op = "setPointForHessianEvaluations",
                              !.status = "ok"]
    /\ UNCHANGED <<pc, misfitVars, modelVars, solver, solvert, heap>>

\* ------------------------------------------------------ incremental solves
\* the time loop of solveFwdIncremental from index k on
RECURSIVE FwdIncMarch(_, _, _, _, _, _, _)
FwdIncMarch(w, outc, A, Ms, rhs, uold, k) ==
    IF k > Len(w[outc]) THEN w
    ELSE LET u == LUSolve(A, Axpy(MatVec(Ms, uold), P - 1, rhs[k]))
         IN  FwdIncMarch([w EXCEPT ![outc][k] = u], outc, A, Ms, rhs, u, k + 1)

\* solveFwdIncremental(sol, rhs): self.solver is whatever the last solveFwd
\* left (an AttributeError when there was none)
solveFwdIncremental(w, outc, rhs, built, times, gls, step) ==
    LET w1 == Zeroed(w, outc, times)
    IN  IF built = None \/ Singular(LMat(built, gls, step))
        THEN [status |-> "error", w |-> w1]
        ELSE [status |-> "ok",
              w |-> FwdIncMarch(w1, outc, LMat(built, gls, step),
                                MStabMat(gls, step), rhs, ZeroVec, 2)]

\* the backward time loop of solveAdjIncremental from index k down
RECURSIVE AdjIncMarch(_, _, _, _, _, _, _)
AdjIncMarch(w, outc, A, Mts, rhs, pold, k) ==
    IF k < 1 THEN w
    ELSE LET pp == LUSolve(A, Axpy(MatVec(Mts, pold), P - 1, rhs[k]))
         IN  AdjIncMarch([w EXCEPT ![outc][k] = pp], outc, A, Mts, rhs, pp, k - 1)

\* solveAdjIncremental(sol, rhs): self.solvert is whatever the last solveAdj left
solveAdjIncremental(w, outc, rhs, built, times, gls, step) ==
    LET w1 == Zeroed(w, outc, times)
    IN  IF built = None \/ Singular(LtMat(built, gls, step))
        THEN [status |-> "error", w |-> w1]
        ELSE [status |-> "ok",
              w |-> AdjIncMarch(w1, outc, LtMat(built, gls, step),
                                MtStabMat(gls, step), rhs, ZeroVec, Len(times))]

SolveFwdIncremental(rhs, prev) ==
    /\ pc = "ready"
    /\ LET r == solveFwdIncremental(Work(heap, prev, 0), "o", rhs, solver,
                                    simulation_times, gls_stab, dt)
       IN  last' = [NoCall EXCEPT !.op = "solveFwdIncremental", !.status = r.status,
                                  !.outc = "o", !.dirT = rhs,
                                  !.outT = r.w.o]
    /\ UNCHANGED <<pc, misfitVars, modelVars, solver, solvert, x_set,
                   gauss_newton_approx, heap>>

SolveAdjIncremental(rhs, prev) ==
    /\ pc = "ready"
    /\ LET r == solveAdjIncremental(Work(heap, prev, 0), "o", rhs, solvert,
                                    simulation_times, gls_stab, dt)
       IN  last' = [NoCall EXCEPT !.op = "solveAdjIncremental", !.status = r.status,
                                  !.outc = "o", !.dirT = rhs,
                                  !.outT = r.w.o]
    /\ UNCHANGED <<pc, misfitVars, modelVars, solver, solvert, x_set,
                   gauss_newton_approx, heap>>

\* ----------------------------------------------------- TimeDependentAD.apply_ij
\* second derivatives of pde_varf(ut, m, pt) at one time step, in a direction:
\* derivative(derivative(F, m, dir), ut)
d2_m_u(u, m, p, dir) == VScale((ExpM(m) * dir) % P, MatVec(Transpose(Kmat), p))
\* derivative(derivative(F, m, dir), pt)
d2_m_p(u, m, p, dir) == VScale((ExpM(m) * dir) % P, MatVec(Kmat, u))
\* derivative(derivative(F, m, dir), m)
d2_m_m(u, m, p, dir) == (ExpM(m) * dir * VInner(p, MatVec(Kmat, u))) % P
\* derivative(derivative(F, pt, dir), m)
d2_p_m(u, m, p, dir) == (ExpM(m) * VInner(dir, MatVec(Kmat, u))) % P
\* derivative(derivative(F, ut, dir), m)
d2_u_m(u, m, p, dir) == (ExpM(m) * VInner(p, MatVec(Kmat, dir))) % P

\* sum of f[k] for k in lo..hi (the accumulation out += myout)
RECURSIVE Accumulate(_, _, _)
Accumulate(f, lo, hi) ==
    IF hi < lo THEN 0 ELSE (Accumulate(f, lo, hi - 1) + f[hi]) % P

\* branch i == STATE and j == PARAMETER: the contents of out
apply_SP(w, direction, times, step) ==
    [k \in 1..Len(times) |->
        IF k = 1 THEN ZeroVec
        ELSE VScale(step, d2_m_u(w.u[k], w.m, w.p[k], direction))]
\* the adjoint-parameter block computed at the first time as at the others
apply_AP_first_time(w, direction, times, step) ==
    [k \in 1..Len(times) |->
        VScale(step, d2_m_p(w.u[k], w.m, w.p[k], direction))]

\* branch i == ADJOINT and j == PARAMETER
apply_AP(w, direction, times, step) ==
    [k \in 1..Len(times) |->
        IF k = 1 THEN ZeroVec
        ELSE VScale(step, d2_m_p(w.u[k], w.m, w.p[k], direction))]
\* branch i == PARAMETER and j == PARAMETER
apply_PP(w, direction, times, step) ==
    (step * Accumulate([k \in 1..Len(times) |->
                           d2_m_m(w.u[k], w.m, w.p[k], direction)],
                       2, Len(times))) % P
\* branch i == PARAMETER and j == ADJOINT
apply_PA(w, direction, times, step) ==
    (step * Accumulate([k \in 1..Len(times) |->
                           d2_p_m(w.u[k], w.m, w.p[k], direction[k])],
                       2, Len(times))) % P
\* the parameter-state block summed over every time, the first included
apply_PS_all_times(w, direction, times, step) ==
    (step * Accumulate([k \in 1..Len(times) |->
                           d2_u_m(w.u[k], w.m, w.p[k], direction[k])],
                       1, Len(times))) % P

\* branch i == PARAMETER and j == STATE
apply_PS(w, direction, times, step) ==
    (step * Accumulate([k \in 1..Len(times) |->
                           d2_u_m(w.u[k], w.m, w.p[k], direction[k])],
                       2, Len(times))) % P

\* apply_ij(i, j, direction, out): w holds the contents of the containers
\* self.x refers to; xs is FALSE while self.x is [None, None, None], and then
\* vector2Function(self.x[PARAMETER], ...) raises
apply_ij(w, xs, i, j, direction, outc, times, step) ==
    LET w1 == Zeroed(w, outc, times)
    IN  IF ~(i = iSTATE /\ j = iSTATE)
        THEN IF ~xs THEN [status |-> "error", w |-> w1]
             ELSE IF i = iSTATE /\ j = iPARAMETER
             THEN [status |-> "ok",
                   w |-> [w1 EXCEPT ![outc] = apply_SP(w1, direction, times, step)]]
             ELSE IF i = iADJOINT /\ j = iPARAMETER
             THEN [status |-> "ok",
                   w |-> [w1 EXCEPT ![outc] = apply_AP(w1, direction, times, step)]]
             ELSE IF i = iPARAMETER /\ j = iPARAMETER
             THEN [status |-> "ok",
                   w |-> [w1 EXCEPT ![outc] = apply_PP(w1, direction, times, step)]]
             ELSE IF i = iPARAMETER /\ j = iADJOINT
             THEN [status |-> "ok",
                   w |-> [w1 EXCEPT ![outc] = apply_PA(w1, direction, times, step)]]
             ELSE IF i = iPARAMETER /\ j = iSTATE
             THEN [status |-> "ok",
                   w |-> [w1 EXCEPT ![outc] = apply_PS(w1, direction, times, step)]]
             ELSE [status |-> "ok", w |-> w1]
        ELSE [status |-> "ok", w |-> w1]


\* the record of a Hessian-action call
HessCall(name, r, i, j, direction) ==
    [NoCall EXCEPT !.op = name, !.status = r.status, !.i = i, !.j = j,
                   !.outc = OutFor(i),
                   !.dirM = IF j = iPARAMETER THEN direction ELSE 0,
                   !.dirT = IF j = iPARAMETER THEN <<>> ELSE direction,
                   !.outT = IF i = iPARAMETER THEN <<>> ELSE r.w.o,
                   !.outM = IF i = iPARAMETER THEN r.w.om ELSE 0]

hessFrame == <<pc, misfitVars, modelVars, solver, solvert, x_set,
               gauss_newton_approx, heap>>

ApplyIJ(i, j, direction, prev) ==
    /\ pc = "ready"
    /\ last' = HessCall("apply_ij",
                        apply_ij(WorkFor(heap, i, prev, simulation_times), x_set, i, j,
                                 direction, OutFor(i), simulation_times, dt),
                        i, j, direction)
    /\ UNCHANGED hessFrame

\* applyC, applyCt, applyWum, applyWmu, applyWmm: out.zero(), then the block
ModelWrapper(name, i, j, direction, prev) ==
    /\ pc = "ready"
    /\ last' = HessCall(name,
                        apply_ij(Zeroed(WorkFor(heap, i, prev, simulation_times),
                                        OutFor(i), simulation_times),
                                 x_set, i, j, direction, OutFor(i),
                                 simulation_times, dt),
                        i, j, direction)
    /\ UNCHANGED hessFrame

ApplyC(dm, prev) == ModelWrapper("applyC", iADJOINT, iPARAMETER, dm, prev)
ApplyCt(dp, prev) == ModelWrapper("applyCt", iPARAMETER, iADJOINT, dp, prev)
ApplyWum(dm, prev) == ModelWrapper("applyWum", iSTATE, iPARAMETER, dm, prev)
ApplyWmu(du, prev) == ModelWrapper("applyWmu", iPARAMETER, iSTATE, du, prev)
ApplyWmm(dm, prev) == ModelWrapper("applyWmm", iPARAMETER, iPARAMETER, dm, prev)

\* applyWuu: out.zero(), then the misfit's state-state block
ApplyWuu(du, prev) ==
    /\ pc = "ready"
    /\ last' = HessCall("applyWuu",
                        Misfit_apply_ij(Zeroed(Work(heap, prev, 0), "o", simulation_times),
                                        iSTATE, iSTATE, du, "o", observation_times,
                                        noise_variance, simulation_times),
                        iSTATE, iSTATE, du)
    /\ UNCHANGED hessFrame

\* -------------------------------------------------------- generate_vector
\* Python values handed as the component tag: a string or an integer
PyStr(str) == [kind |-> "str", s |-> str, n |-> 0]
PyInt(num) == [kind |-> "int", s |-> "", n |-> num]
ComponentTags ==
    {PyStr("ALL"), PyStr("STATE"), PyStr("all"), PyInt(iSTATE), PyInt(iPARAMETER),
     PyInt(iADJOINT), PyInt(3), PyInt(None)}

\* generate_vector that falls back to the full triple for an unknown tag
generate_vector_default(component, times) ==
    IF component = PyInt(iSTATE) \/ component = PyInt(iADJOINT)
    THEN [status |-> "ok", ret |-> Zeros(times)]
    ELSE IF component = PyInt(iPARAMETER)
    THEN [status |-> "ok", ret |-> 0]
    ELSE [status |-> "ok", ret |-> <<Zeros(times), 0, Zeros(times)>>]

\* generate_vector(component): the value returned, or the bare raise
generate_vector(component, times) ==
    IF component = PyStr("ALL")
    THEN [status |-> "ok", ret |-> <<Zeros(times), 0, Zeros(times)>>]
    ELSE IF component = PyInt(iSTATE)
    THEN [status |-> "ok", ret |-> Zeros(times)]
    ELSE IF component = PyInt(iPARAMETER)
    THEN [status |-> "ok", ret |-> 0]
    ELSE IF component = PyInt(iADJOINT)
    THEN [status |-> "ok", ret |-> Zeros(times)]
    ELSE [status |-> "error", ret |-> <<>>]

GenerateVector(component) ==
    /\ pc = "ready"
    /\ LET r == generate_vector(component, simulation_times)
       IN  last' = [NoCall EXCEPT !.op = "generate_vector", !.status = r.status,
                                  !.arg = component, !.ret = r.ret]
    /\ UNCHANGED hessFrame

\* ------------------------------------------- observe, cost, reduced gradient
\* observe(x, obs): obs.zero(), then B*u(t) stored at each observation time;
\* obs lives on the observation grid
Misfit_observe(w, obs, times) ==
    [status |-> "ok", w |-> w,
     ret |-> <<[t \in obs |-> Bmult(Retrieve(w.u, times, t))]>>]

\* the prior (external collaborator) on the one-dof parameter space: precision
\* R, mass matrix of Msolver, mean
PriorR == 2
PriorMass == 1
PriorMean == 1
\* prior.cost(m) = 0.5 * (m - mean)' R (m - mean)
Prior_cost(m) ==
    LET dm == (m + Neg(PriorMean)) % P
    IN  (Inv(2) * PriorR * dm * dm) % P

\* TimeDependentAD.cost(x): [reg + misfit, reg, misfit]
Model_cost(w, obs, nv, dd, times) ==
    LET reg == Prior_cost(w.m)
        mis == Misfit_cost(w, obs, nv, dd, times)
    IN  IF mis.status = "error" THEN [status |-> "error", w |-> w, ret |-> <<>>]
        ELSE [status |-> "ok", w |-> w,
              ret |-> <<(reg + mis.ret[1]) % P, reg, mis.ret[1]>>]

\* derivative(pde_varf(ut, m, pt), m) at one time step
d_m(u, m, p) == (ExpM(m) * VInner(p, MatVec(Kmat, u))) % P
\* updategrade(out, x): out = dt * sum over simulation_times[1::]
updategrade(w, times, step) ==
    (step * Accumulate([k \in 1..Len(times) |-> d_m(w.u[k], w.m, w.p[k])],
                       2, Len(times))) % P

\* evalGradientParameter that forms x[PARAMETER] - mean in place
evalGradientParameter_inplace(w, misfit_only, times, step) ==
    LET detm == (w.m + Neg(PriorMean)) % P
        mg0 == IF misfit_only THEN 0 ELSE (PriorR * detm) % P
        mg == (mg0 + updategrade(w, times, step)) % P
        g == (Inv(PriorMass) * mg) % P
    IN  [status |-> "ok",
         w |-> [w EXCEPT !.om = mg, !.m = IF misfit_only THEN w.m ELSE detm],
         ret |-> <<(g * mg) % P>>]

\* evalGradientParameter(x, mg, misfit_only): mg is written, the norm returned
evalGradientParameter(w, misfit_only, times, step) ==
    LET detm == (w.m + Neg(PriorMean)) % P
        mg0 == IF misfit_only THEN 0 ELSE (PriorR * detm) % P
        mg == (mg0 + updategrade(w, times, step)) % P
        g == (Inv(PriorMass) * mg) % P
    IN  [status |-> "ok", w |-> [w EXCEPT !.om = mg], ret |-> <<(g * mg) % P>>]

\* exportState(x, filename, varname): the records written to the file, the
\* first one taken from x[PARAMETER], the later ones from x[STATE]
exportState(w, times) ==
    [status |-> "ok", w |-> w,
     ret |-> [k \in 1..Len(times) |->
                 IF k = 1 THEN <<times[k], <<w.m>>>> ELSE <<times[k], w.u[k]>>]]

MisfitObserve ==
    /\ pc = "ready"
    /\ LET r == Misfit_observe(Work(heap, <<>>, 0), observation_times,
                               simulation_times)
       IN  /\ heap' = XOf(r.w)
           /\ last' = [NoCall EXCEPT !.op = "misfit.observe", !.status = r.status,
                                     !.ret = r.ret]
    /\ UNCHANGED <<pc, misfitVars, modelVars, solver, solvert, x_set,
                   gauss_newton_approx>>

ModelCost ==
    /\ pc = "ready"
    /\ LET r == Model_cost(Work(heap, <<>>, 0), observation_times, noise_variance,
                           d, simulation_times)
       IN  /\ heap' = XOf(r.w)
           /\ last' = [NoCall EXCEPT !.op = "cost", !.status = r.status,
                                     !.ret = r.ret]
    /\ UNCHANGED <<pc, misfitVars, modelVars, solver, solvert, x_set,
                   gauss_newton_approx>>

EvalGradientParameter(misfit_only, prev) ==
    /\ pc = "ready"
    /\ LET r == evalGradientParameter(Work(heap, <<>>, prev), misfit_only,
                                      simulation_times, dt)
       IN  /\ heap' = XOf(r.w)
           /\ last' = [NoCall EXCEPT !.op = "evalGradientParameter",
                                     !.status = r.status, !.outc = "om",
                                     !.outM = r.w.om, !.ret = r.ret]
    /\ UNCHANGED <<pc, misfitVars, modelVars, solver, solvert, x_set,
                   gauss_newton_approx>>

ExportState ==
    /\ pc = "ready"
    /\ LET r == exportState(Work(heap, <<>>, 0), simulation_times)
       IN  /\ heap' = XOf(r.w)
           /\ last' = [NoCall EXCEPT !.op = "exportState", !.status = r.status,
                                     !.ret = r.ret]
    /\ UNCHANGED <<pc, misfitVars, modelVars, solver, solvert, x_set,
                   gauss_newton_approx>>

\* --------------------------------------------------------- specifications
\* constructor inputs
BuildAny ==
    \/ \E obs \in ObsChoices, dArg \in {None, 1}, nv \in VarianceChoices :
          Misfit_init(obs, dArg, nv)
    \/ \E grid \in Grids, gls \in BOOLEAN : TimeDependentAD_init(grid, gls)
\* constructor inputs with a usable misfit (data given, positive variance)
\* and GLS stabilisation switched on
BuildUsable ==
    \/ \E obs \in ObsChoices : Misfit_init(obs, 1, 2)
    \/ \E grid \in Grids : TimeDependentAD_init(grid, TRUE)

DriverSteps ==
    \/ \E v \in ParamVals : DriverSetParameter(v)
    \/ \E outc \in {"u", "o"}, prev \in PrevT(simulation_times) : SolveFwd(outc, prev)
    \/ \E outc \in {"p", "o"}, prev \in PrevT(simulation_times) : SolveAdj(outc, prev)
    \/ \E gn \in BOOLEAN : SetPointForHessianEvaluations(gn)

IncrementalSteps ==
    \/ \E rhs \in DirsT(simulation_times), prev \in PrevT(simulation_times) :
          SolveFwdIncremental(rhs, prev)
    \/ \E rhs \in DirsT(simulation_times), prev \in PrevT(simulation_times) :
          SolveAdjIncremental(rhs, prev)

MisfitSteps ==
    \/ MisfitCost
    \/ \E i \in Blocks : \E prev \in PrevFor(i, simulation_times) : MisfitGrad(i, prev)
    \/ \E i \in Blocks, j \in Blocks :
          \E dir \in DirsT(simulation_times), prev \in PrevFor(i, simulation_times) :
             MisfitApplyIJ(i, j, dir, prev)

HessianSteps ==
    \/ \E i \in Blocks, j \in Blocks :
          \E dir \in DirsFor(j, simulation_times), prev \in PrevFor(i, simulation_times) :
             ApplyIJ(i, j, dir, prev)
    \/ \E dm \in DirsM, prev \in PrevT(simulation_times) : ApplyC(dm, prev)
    \/ \E dp \in DirsT(simulation_times), prev \in PrevM : ApplyCt(dp, prev)
    \/ \E du \in DirsT(simulation_times), prev \in PrevT(simulation_times) : ApplyWuu(du, prev)
    \/ \E dm \in DirsM, prev \in PrevT(simulation_times) : ApplyWum(dm, prev)
    \/ \E du \in DirsT(simulation_times), prev \in PrevM : ApplyWmu(du, prev)
    \/ \E dm \in DirsM, prev \in PrevM : ApplyWmm(dm, prev)

GenerateSteps == \E c \in ComponentTags : GenerateVector(c)

Next ==
    \/ BuildAny
    \/ DriverSteps
    \/ IncrementalSteps
    \/ MisfitSteps
    \/ HessianSteps
    \/ GenerateSteps

Spec == Init /\ [][Next]_vars

\* the misfit's own operations on a state history produced by solveFwd
NextMisfit ==
    \/ BuildAny
    \/ \E outc \in {"u"}, prev \in PrevT(simulation_times) : SolveFwd(outc, prev)
    \/ MisfitSteps
SpecMisfit == Init /\ [][NextMisfit]_vars


\* forward and adjoint solves into x or into a separate container
NextAdj ==
    \/ BuildUsable
    \/ \E v \in ParamVals : DriverSetParameter(v)
    \/ \E outc \in {"u", "o"}, prev \in PrevT(simulation_times) : SolveFwd(outc, prev)
    \/ \E outc \in {"p", "o"}, prev \in PrevT(simulation_times) : SolveAdj(outc, prev)
SpecAdj == Init /\ [][NextAdj]_vars

\* the driver's steps when it solves into the containers of x
HessDriverSteps ==
    \/ \E v \in ParamVals : DriverSetParameter(v)
    \/ \E prev \in PrevT(simulation_times) : SolveFwd("u", prev)
    \/ \E prev \in PrevT(simulation_times) : SolveAdj("p", prev)
    \/ \E gn \in BOOLEAN : SetPointForHessianEvaluations(gn)
\* forward, adjoint and incremental solves under parameter updates
NextSolve == BuildUsable \/ HessDriverSteps \/ IncrementalSteps
SpecSolve == Init /\ [][NextSolve]_vars

\* Hessian actions under parameter updates and re-linearisation
NextHess == BuildUsable \/ HessDriverSteps \/ HessianSteps
SpecHess == Init /\ [][NextHess]_vars

\* the block dispatcher alone, linearised with the default Gauss-Newton flag
NextBlocks ==
    \/ BuildUsable
    \/ \E v \in ParamVals : DriverSetParameter(v)
    \/ \E prev \in PrevT(simulation_times) : SolveFwd("u", prev)
    \/ \E prev \in PrevT(simulation_times) : SolveAdj("p", prev)
    \/ SetPointForHessianEvaluations(TRUE)
    \/ \E i \in Blocks, j \in Blocks :
          \E dir \in DirsFor(j, simulation_times), prev \in PrevFor(i, simulation_times) :
             ApplyIJ(i, j, dir, prev)
SpecBlocks == Init /\ [][NextBlocks]_vars

\* construction and allocation
NextGen == BuildAny \/ GenerateSteps
SpecGen == Init /\ [][NextGen]_vars

\* the four solves, with and without GLS stabilisation
BuildPlain ==
    \/ Misfit_init({1}, 1, 2)
    \/ \E grid \in Grids, gls \in BOOLEAN : TimeDependentAD_init(grid, gls)
NextFail == BuildPlain \/ HessDriverSteps \/ IncrementalSteps
SpecFail == Init /\ [][NextFail]_vars

\* the operations that only read x, at a point reached by the solves
ReadingSteps ==
    \/ MisfitObserve
    \/ MisfitCost
    \/ \E i \in Blocks : \E prev \in PrevFor(i, simulation_times) : MisfitGrad(i, prev)
    \/ ModelCost
    \/ \E mo \in BOOLEAN, prev \in PrevM : EvalGradientParameter(mo, prev)
    \/ ExportState
\* the Hessian actions, each in one direction
FrameDirsT(times) == {[k \in 1..Len(times) |-> <<1, k>>]}
FrameDirsM == {2}
FrameDirsFor(j, times) == IF j = iPARAMETER THEN FrameDirsM ELSE FrameDirsT(times)
FrameHessianSteps ==
    \/ \E i \in Blocks, j \in Blocks :
          \E dir \in FrameDirsFor(j, simulation_times),
             prev \in PrevFor(i, simulation_times) : ApplyIJ(i, j, dir, prev)
    \/ \E dm \in FrameDirsM, prev \in PrevT(simulation_times) : ApplyC(dm, prev)
    \/ \E dp \in FrameDirsT(simulation_times), prev \in PrevM : ApplyCt(dp, prev)
    \/ \E du \in FrameDirsT(simulation_times), prev \in PrevT(simulation_times) :
          ApplyWuu(du, prev)
    \/ \E dm \in FrameDirsM, prev \in PrevT(simulation_times) : ApplyWum(dm, prev)
    \/ \E du \in FrameDirsT(simulation_times), prev \in PrevM : ApplyWmu(du, prev)
    \/ \E dm \in FrameDirsM, prev \in PrevM : ApplyWmm(dm, prev)
\* one observation, at time 1, on the grids that hold it
BuildObserved ==
    \/ Misfit_init({1}, 1, 2)
    \/ \E grid \in Grids : TimeDependentAD_init(grid, TRUE)
NextFrame ==
    \/ BuildObserved
    \/ \E v \in ParamVals : DriverSetParameter(v)
    \/ \E prev \in PrevT(simulation_times) : SolveFwd("u", prev)
    \/ \E prev \in PrevT(simulation_times) : SolveAdj("p", prev)
    \/ SetPointForHessianEvaluations(TRUE)
    \/ ReadingSteps
    \/ FrameHessianSteps
SpecFrame == Init /\ [][NextFrame]_vars

\* ------------------------------------------------------------------ claims
\* what apply_ij reads through self.x
LinearizationPoint == IF x_set THEN heap ELSE NoHeap

\* C1: no linear solve is performed against an operator built from a parameter
\* other than the one the solve is for: solveFwd / solveAdj use an operator
\* built from x[PARAMETER] of the call, the incremental solves one built from
\* the parameter of the linearisation point that is set
C1_NoStaleOperator ==
    /\ (last.op = "solveFwd" /\ solver # None) => solver = heap.m
    /\ (last.op = "solveAdj" /\ solvert # None) => solvert = heap.m
    /\ (last.op = "solveFwdIncremental" /\ x_set /\ solver # None)
          => solver = LinearizationPoint.m
    /\ (last.op = "solveAdjIncremental" /\ x_set /\ solvert # None)
          => solvert = LinearizationPoint.m

\* C2: apply_ij with a block pair outside the supported set ends in an error
UnsupportedBlocks ==
    {<<iSTATE, iADJOINT>>, <<iADJOINT, iSTATE>>, <<iADJOINT, iADJOINT>>}
C2_UnsupportedBlockFails ==
    (last.op = "apply_ij" /\ <<last.i, last.j>> \in UnsupportedBlocks)
        => last.status = "error"

\* C3: while setPointForHessianEvaluations has never been called, every
\* Hessian-action method is rejected with an error
HessianOps ==
    {"apply_ij", "applyC", "applyCt", "applyWuu", "applyWum", "applyWmu", "applyWmm"}
C3_RejectedBeforeSetPoint ==
    (last.op \in HessianOps /\ ~x_set) => last.status = "error"

\* C4: the linearisation point is frozen: once set, the values the Hessian
\* actions are evaluated at change only by another setPointForHessianEvaluations
C4_FrozenPoint ==
    [][(x_set /\ last'.op # "setPointForHessianEvaluations")
          => LinearizationPoint' = LinearizationPoint]_vars

\* C5 (as stated): every misfit cost / grad / apply_ij call made while the
\* noise variance is unset or zero ends in an error
MisfitOps == {"misfit.cost", "misfit.grad", "misfit.apply_ij"}
C5_AlwaysError ==
    (last.op \in MisfitOps /\ noise_variance \in {None, 0})
        => last.status = "error"

\* C5 (amended): with the noise variance unset or zero, cost always ends in an
\* error; grad and apply_ij end in an error exactly for the state block
\* (i = STATE, resp. i = j = STATE) with at least one observation time, and
\* otherwise return normally with out zeroed
C5_ErrorWhereDivided ==
    (last.op \in MisfitOps /\ noise_variance \in {None, 0}) =>
        LET divides ==
                \/ last.op = "misfit.cost"
                \/ /\ last.op = "misfit.grad"
                   /\ last.i = iSTATE
                   /\ observation_times # {}
                \/ /\ last.op = "misfit.apply_ij"
                   /\ last.i = iSTATE /\ last.j = iSTATE
                   /\ observation_times # {}
        IN  /\ last.status = (IF divides THEN "error" ELSE "ok")
            /\ (last.op = "misfit.cost" => last.ret = <<>>)
            /\ (last.op # "misfit.cost" /\ ~divides) =>
                  IF last.outc = "om" THEN last.outM = 0
                  ELSE last.outT = Zeros(simulation_times)

C5_Witness ==
    /\ last.op = "misfit.grad"
    /\ last.i = iSTATE
    /\ noise_variance = 0
    /\ observation_times # {}
    /\ last.status = "error"

\* C6: a simulation grid whose spacing is not uniform is rejected at
\* construction, so a constructed model always has a uniform grid
C6_NonUniformRejected == pc = "ready" => Uniform(simulation_times)

\* C7: generate_vector returns zero-initialised containers for the recognised
\* tags ("ALL": the triple, STATE and ADJOINT: one vector per simulation time,
\* PARAMETER: a single spatial vector) and fails, returning nothing, for every
\* other tag
IsZeroHistory(c) ==
    /\ Len(c) = Len(simulation_times)
    /\ \A k \in 1..Len(c) : c[k] = ZeroVec
C7_GenerateVector ==
    last.op = "generate_vector" =>
        IF last.arg.kind = "str" /\ last.arg.s = "ALL"
        THEN /\ last.status = "ok"
             /\ Len(last.ret) = 3
             /\ IsZeroHistory(last.ret[1])
             /\ last.ret[2] = 0
             /\ IsZeroHistory(last.ret[3])
        ELSE IF last.arg.kind = "int" /\ last.arg.n \in {iSTATE, iADJOINT}
        THEN last.status = "ok" /\ IsZeroHistory(last.ret)
        ELSE IF last.arg.kind = "int" /\ last.arg.n = iPARAMETER
        THEN last.status = "ok" /\ last.ret = 0
        ELSE last.status = "error" /\ last.ret = <<>>

C7_Witness ==
    /\ last.op = "generate_vector"
    /\ last.arg = PyInt(3)
    /\ last.status = "error"

\* C8: after every solveFwd(out, x) that completes, out at the first
\* simulation time is the initial condition and out at every later time t_k
\* solves L*u = M_stab*out(t_{k-1}), L built from x[PARAMETER]
C8_FullStateHistory ==
    (last.op = "solveFwd" /\ last.status = "ok") =>
        /\ last.outT[1] = ICVec
        /\ \A k \in 2..Len(simulation_times) :
              MatVec(LMat(heap.m, gls_stab, dt), last.outT[k])
                 = MatVec(MStabMat(gls_stab, dt), last.outT[k - 1])

\* C9: after every solveAdj(out, x) that completes, out at the final time
\* solves Lt*p = -grad_state(t_final), and at every earlier time t_k it solves
\* Lt*p = Mt_stab*p(t_{k+1}) - grad_state(t_k), grad_state being the misfit's
\* state gradient at x; nothing of the previous contents of out remains
GradStateAt(k) ==
    IF simulation_times[k] \in observation_times
    THEN VScale(((Bmult(heap.u[k]) + Neg(d[simulation_times[k]])) * Inv(noise_variance)) % P,
                Bvec)
    ELSE ZeroVec
C9_AdjointHistory ==
    (last.op = "solveAdj" /\ last.status = "ok") =>
        LET n == Len(simulation_times)
            Lt == LtMat(heap.m, gls_stab, dt)
        IN  /\ Len(last.outT) = n
            /\ MatVec(Lt, last.outT[n]) = VScale(P - 1, GradStateAt(n))
            /\ \A k \in 1..(n - 1) :
                  MatVec(Lt, last.outT[k])
                     = VAdd(MatVec(MtStabMat(gls_stab, dt), last.outT[k + 1]),
                            VScale(P - 1, GradStateAt(k)))

C9_Witness ==
    /\ last.op = "solveAdj"
    /\ last.status = "ok"
    /\ last.outc = "o"
    /\ observation_times # {}
    /\ heap.u[Len(simulation_times)] # ZeroVec
    /\ \A k \in 1..Len(simulation_times) : last.outT[k] # ZeroVec

\* C10: at a fixed linearisation point the blocks are mutual adjoints:
\* <apply_ij(i,j,d1), d2> = <apply_ij(j,i,d2), d1> for (STATE,PARAMETER),
\* (ADJOINT,PARAMETER), (PARAMETER,PARAMETER) and their transposes, the inner
\* product of time-indexed vectors being the sum over all simulation times
AllDirsT == UnitDirsT(simulation_times) \cup DirsT(simulation_times)
\* the output of apply_ij(i, j, d2, out) at the current point
BlockAt(i, j, d2) ==
    LET r == apply_ij(WorkFor(heap, i, 0, simulation_times), x_set, i, j, d2,
                      OutFor(i), simulation_times, dt)
    IN  r.w[OutFor(i)]
C10_BlocksAreAdjoint ==
    (last.op = "apply_ij" /\ last.status = "ok" /\ x_set) =>
        /\ (last.i \in {iSTATE, iADJOINT} /\ last.j = iPARAMETER) =>
              \A d2 \in AllDirsT :
                 TInner(last.outT, d2)
                    = (BlockAt(iPARAMETER, last.i, d2) * last.dirM) % P
        /\ (last.i = iPARAMETER /\ last.j \in {iSTATE, iADJOINT}) =>
              \A d2 \in Scalar :
                 (last.outM * d2) % P
                    = TInner(BlockAt(last.j, iPARAMETER, d2), last.dirT)
        /\ (last.i = iPARAMETER /\ last.j = iPARAMETER) =>
              \A d2 \in Scalar :
                 (last.outM * d2) % P
                    = (BlockAt(iPARAMETER, iPARAMETER, d2) * last.dirM) % P

C10_Witness ==
    /\ last.op = "apply_ij"
    /\ last.status = "ok"
    /\ last.i = iSTATE /\ last.j = iPARAMETER
    /\ \E d2 \in AllDirsT : TInner(last.outT, d2) # 0

\* C11: the misfit depends only on the state: grad(i, x, out) leaves out exactly
\* zero for every block i other than STATE, and for i = STATE out is zero at
\* every simulation time that is not an observation time; apply_ij(i, j,
\* direction, out) leaves out exactly zero for every pair other than
\* (STATE, STATE), and for (STATE, STATE) out is zero at every non-observation
\* time; the previous contents of out never show through
LastOutIsZero ==
    IF last.outc = "om" THEN last.outM = 0
    ELSE last.outT = Zeros(simulation_times)
LastOutZeroOffObservations ==
    /\ Len(last.outT) = Len(simulation_times)
    /\ \A k \in 1..Len(simulation_times) :
          simulation_times[k] \notin observation_times => last.outT[k] = ZeroVec
C11_MisfitStateOnly ==
    /\ last.op = "misfit.grad" =>
          IF last.i = iSTATE THEN LastOutZeroOffObservations ELSE LastOutIsZero
    /\ last.op = "misfit.apply_ij" =>
          IF last.i = iSTATE /\ last.j = iSTATE
          THEN LastOutZeroOffObservations ELSE LastOutIsZero

\* grad(STATE, x, out) on junk-filled out: a non-zero entry at the observation
\* time, zero at the others
C11_Witness ==
    /\ last.op = "misfit.grad"
    /\ last.i = iSTATE
    /\ last.status = "ok"
    /\ \E k \in 1..Len(simulation_times) :
          simulation_times[k] \in observation_times /\ last.outT[k] # ZeroVec
    /\ \E k \in 1..Len(simulation_times) :
          simulation_times[k] \notin observation_times /\ last.outT[k] = ZeroVec

\* C12: no operation that only reads a point modifies it: misfit observe / cost
\* / grad, the model's cost, solveAdj, evalGradientParameter, apply_ij, the
\* named Hessian-action wrappers and exportState leave the state history and
\* the parameter vector of x, and with them the linearisation point that is
\* set, as they were; only the output argument is written
ReadOnlyOps ==
    {"misfit.observe", "misfit.cost", "misfit.grad", "cost", "solveAdj",
     "evalGradientParameter", "exportState"} \cup HessianOps
DmForm(u, m, p) == (pde_varf(u, m, p) + Neg(VInner(p, MatVec(Wmat, u)))) % P
BasisVecs == {<<1, 0>>, <<0, 1>>}
C13_ResultFollowsRow ==
    (last.op = "apply_ij" /\ x_set) =>
        LET n == Len(simulation_times)
            lp == LinearizationPoint
        IN  /\ last.status = "ok"
            /\ (last.i = iSTATE /\ last.j = iPARAMETER) =>
                  /\ Len(last.outT) = n
                  /\ last.outT[1] = ZeroVec
                  /\ \A k \in 2..n : \A e \in BasisVecs :
                        VInner(last.outT[k], e)
                           = (dt * last.dirM * DmForm(e, lp.m, lp.p[k])) % P
            /\ (last.i = iADJOINT /\ last.j = iPARAMETER) =>
                  /\ Len(last.outT) = n
                  /\ last.outT[1] = ZeroVec
                  /\ \A k \in 2..n : \A e \in BasisVecs :
                        VInner(last.outT[k], e)
                           = (dt * last.dirM * DmForm(lp.u[k], lp.m, e)) % P
            /\ (last.i = iPARAMETER /\ last.j = iPARAMETER) =>
                  last.outM
                     = (dt * Accumulate([k \in 1..n |->
                                (last.dirM * DmForm(lp.u[k], lp.m, lp.p[k])) % P],
                             2, n)) % P
            /\ (last.i = iPARAMETER /\ last.j = iADJOINT) =>
                  last.outM
                     = (dt * Accumulate([k \in 1..n |->
                                DmForm(lp.u[k], lp.m, last.dirT[k])], 2, n)) % P
            /\ (last.i = iPARAMETER /\ last.j = iSTATE) =>
                  last.outM
                     = (dt * Accumulate([k \in 1..n |->
                                DmForm(last.dirT[k], lp.m, lp.p[k])], 2, n)) % P
            /\ (last.i = iSTATE /\ last.j = iSTATE) =>
                  last.outT = Zeros(simulation_times)

\* the adjoint-parameter block at a point with a time step other than one and
\* a state that makes the block non-zero after the first time
C13_Witness ==
    /\ last.op = "apply_ij"
    /\ x_set
    /\ last.status = "ok"
    /\ last.i = iADJOINT /\ last.j = iPARAMETER
    /\ dt = 2
    /\ last.outT[1] = ZeroVec
    /\ \A k \in 2..Len(simulation_times) : last.outT[k] # ZeroVec

\* C14: every solve is all-or-nothing: when the linear solve fails inside
\* solveFwd, solveAdj, solveFwdIncremental or solveAdjIncremental, the output
\* history is not left with some time steps written by the failed call and
\* the others zeroed, and a failed solveFwd leaves x[STATE] as it was
\* the step is a solve whose linear solve failed (the operator is singular)
LinearSolveFailed ==
    /\ last'.status = "error"
    /\ \/ last'.op = "solveFwd" /\ Singular(LMat(heap.m, gls_stab, dt))
       \/ last'.op = "solveAdj" /\ Singular(LtMat(heap.m, gls_stab, dt))
       \/ /\ last'.op = "solveFwdIncremental"
          /\ solver # None
          /\ Singular(LMat(solver, gls_stab, dt))
       \/ /\ last'.op = "solveAdjIncremental"
          /\ solvert # None
          /\ Singular(LtMat(solvert, gls_stab, dt))
\* some time steps hold a written value, the others are zero
PartlyWritten(c) ==
    /\ \E k \in 1..Len(c) : c[k] # ZeroVec
    /\ \E k \in 1..Len(c) : c[k] = ZeroVec
C14_AllOrNothing ==
    [][(Uniform(simulation_times) /\ LinearSolveFailed) =>
          /\ ~PartlyWritten(last'.outT)
          /\ (last'.op = "solveFwd" => heap'.u = heap.u)]_vars

====
